---- MODULE Spec2Model ----
(***************************************************************************)
(* Model of skills/x-tweet-fetcher/scripts/fetch_tweet.py: the URL parser, *)
(* the fetch loop with its single retry, the extraction of the payload and *)
(* the command-line entry point.                                           *)
(*                                                                         *)
(* JSON values are tagged records; a Python dict is a function whose       *)
(* DOMAIN is the set of keys present, so d.get(k, default) and "k in d"    *)
(* are modelled by what they do.  A URL is a sequence of tokens, each      *)
(* token standing for the run of characters it spells.                     *)
(***************************************************************************)
EXTENDS Integers, Sequences, FiniteSets, TLC

(* ------------------------------ bounds --------------------------------- *)
\* --timeout values tried by the command line are 1..MaxTimeout
MaxTimeout == 1
\* lengths of the lists of article blocks tried are 0..MaxBlocks
MaxBlocks == 2

(* ---------------------------- JSON values ------------------------------ *)
JNull == [t |-> "null"]
JStr(s) == [t |-> "str", s |-> s]
JInt(n) == [t |-> "int", n |-> n]
JBool(b) == [t |-> "bool", b |-> b]
JList(items) == [t |-> "list", items |-> items]
JObj(f) == [t |-> "dict", f |-> f]

\* a dict with no keys
NoKeys == [k \in {} |-> JNull]

\* the dict with exactly the key/value pairs of S
MkObj(S) == JObj([k \in {p[1] : p \in S} |-> (CHOOSE p \in S : p[1] = k)[2]])
EmptyObj == MkObj({})

IsDict(v) == v.t = "dict"
IsList(v) == v.t = "list"

\* Python truthiness of a decoded JSON value
Truthy(v) ==
    CASE v.t = "null" -> FALSE
      [] v.t = "str" -> v.s # ""
      [] v.t = "int" -> v.n # 0
      [] v.t = "bool" -> v.b
      [] v.t = "list" -> Len(v.items) > 0
      [] v.t = "dict" -> DOMAIN v.f # {}

\* d.get(k, default) on a dict d
Get(d, k, default) == IF k \in DOMAIN d.f THEN d.f[k] ELSE default
\* d.get(k): None when the key is missing
Get1(d, k) == Get(d, k, JNull)

(* --------------------------- parse_tweet_url --------------------------- *)
\* characters spelled by a token
TokLen(tok) ==
    CASE tok = "abcdefghijklmno" -> 15
      [] tok = "status" -> 6
      [] tok = "x.com" -> 5
      [] tok = "twitter.com" -> 11
      [] tok = "example.com" -> 11
      [] tok = "https://" -> 8
      [] OTHER -> 1

\* tokens made only of [a-zA-Z0-9_]
IsHandleTok(tok) == tok \in {"a", "_", "7", "4", "abcdefghijklmno", "status"}
\* tokens made only of \d
IsDigitTok(tok) == tok \in {"7", "4"}
\* variant: the host is not restricted to the two names
IsHostTok_any_host(tok) == tok \in {"x.com", "twitter.com", "example.com"}

\* the alternation (?:x\.com|twitter\.com)
IsHostTok(tok) == tok \in {"x.com", "twitter.com"}

RECURSIVE CharLen(_)
CharLen(toks) == IF toks = <<>> THEN 0 ELSE TokLen(Head(toks)) + CharLen(Tail(toks))

\* end (exclusive) of the longest run of tokens satisfying P(_) that starts at i
RECURSIVE RunEnd(_, _, _)
RunEnd(url, i, digits) ==
    IF i <= Len(url) /\ (IF digits THEN IsDigitTok(url[i]) ELSE IsHandleTok(url[i]))
    THEN RunEnd(url, i + 1, digits)
    ELSE i

TokAt(url, i) == IF i \in 1..Len(url) THEN url[i] ELSE ""

\* the pattern matches with its host at position i
MatchAt(url, i) ==
    LET j == RunEnd(url, i + 2, FALSE) IN
    /\ IsHostTok(TokAt(url, i))
    /\ TokAt(url, i + 1) = "/"
    /\ CharLen(SubSeq(url, i + 2, j - 1)) \in 1..15
    /\ TokAt(url, j) = "/"
    /\ TokAt(url, j + 1) = "status"
    /\ TokAt(url, j + 2) = "/"
    /\ IsDigitTok(TokAt(url, j + 3))

\* re.search: is there a match, and the groups of the leftmost one
Matches(url) == \E i \in 1..Len(url) : MatchAt(url, i)
MatchPos(url) == CHOOSE i \in 1..Len(url) :
                    MatchAt(url, i) /\ \A k \in 1..(i - 1) : ~MatchAt(url, k)
Group1(url) == LET i == MatchPos(url) IN SubSeq(url, i + 2, RunEnd(url, i + 2, FALSE) - 1)
Group2(url) == LET j == RunEnd(url, MatchPos(url) + 2, FALSE) IN
               SubSeq(url, j + 3, RunEnd(url, j + 3, TRUE) - 1)

\* re.match(r'^[a-zA-Z0-9_]{1,15}$', username)
ValidUsername(username) ==
    /\ \A i \in 1..Len(username) : IsHandleTok(username[i])
    /\ CharLen(username) \in 1..15
\* tweet_id.isdigit()
IsDigit(tweet_id) ==
    /\ Len(tweet_id) > 0
    /\ \A i \in 1..Len(tweet_id) : IsDigitTok(tweet_id[i])

\* parse_tweet_url: the pair returned, or the ValueError raised
parse_tweet_url(url) ==
    IF Matches(url)
    THEN IF ~ValidUsername(Group1(url))
         THEN [raised |-> TRUE, username |-> <<>>, tweet_id |-> <<>>]
         ELSE IF ~IsDigit(Group2(url))
              THEN [raised |-> TRUE, username |-> <<>>, tweet_id |-> <<>>]
              ELSE [raised |-> FALSE, username |-> Group1(url), tweet_id |-> Group2(url)]
    ELSE [raised |-> TRUE, username |-> <<>>, tweet_id |-> <<>>]

\* the URLs given on the command line
Urls ==
    { <<"https://", "x.com", "/", "a", "/", "status", "/", "7">>,
      <<"twitter.com", "/", "abcdefghijklmno", "/", "status", "/", "7", "4">>,
      <<"https://", "x.com", "/", "status", "/", "status", "/", "4", "?", "a">>,
      <<"x.com", "/", "_", "7", "/", "status", "/", "7", "a">>,
      <<"x.com", "/", "-", "/", "twitter.com", "/", "a", "/", "status", "/", "4">>,
      <<"x.com", "/", "abcdefghijklmno", "a", "/", "status", "/", "7">>,
      <<"x.com", "/", "/", "status", "/", "7">>,
      <<"x.com", "/", "a", "-", "a", "/", "status", "/", "7">>,
      <<"x.com", "/", "a", "/", "status", "/", "a">>,
      <<"x.com", "/", "a", "/", "status", "/">>,
      <<"x.com", "/", "a", "/", "7">>,
      <<"example.com", "/", "a", "/", "status", "/", "7">>,
      <<"https://", "a", "/", "status", "/", "7">>,
      <<>> }

(* ---------------------------- extract_media ---------------------------- *)
\* the entry key: v when v is truthy, none otherwise ("if x.get(k): info[k] = x.get(k)")
IfTruthy(key, v) == IF Truthy(v) THEN key :> v ELSE NoKeys

\* "if all_media and isinstance(all_media, list)" / the same test on videos and variants
NonEmptyList(v) == Truthy(v) /\ IsList(v)

AllDicts(items) == \A i \in 1..Len(items) : IsDict(items[i])

IsPhoto(item) == Get1(item, "type") = JStr("photo")

image_info(photo) ==
    JObj(("url" :> Get(photo, "url", JStr("")))
         @@ IfTruthy("width", Get1(photo, "width"))
         @@ IfTruthy("height", Get1(photo, "height")))

variant_info(variant) ==
    JObj(IfTruthy("url", Get1(variant, "url"))
         @@ IfTruthy("bitrate", Get1(variant, "bitrate"))
         @@ IfTruthy("content_type", Get1(variant, "content_type")))

video_info(video) ==
    LET variants == Get1(video, "variants") IN
    JObj(IfTruthy("url", Get1(video, "url"))
         @@ IfTruthy("duration", Get1(video, "duration"))
         @@ IfTruthy("thumbnail", Get1(video, "thumbnail_url"))
         @@ (IF NonEmptyList(variants)
             THEN "variants" :>
                      JList(SelectSeq([i \in 1..Len(variants.items) |->
                                          variant_info(variants.items[i])],
                                      Truthy))
             ELSE NoKeys))

\* a .get on something that is not a dict (AttributeError) inside extract_media
extract_media_raises(tweet_obj) ==
    LET media == Get(tweet_obj, "media", EmptyObj) IN
    \/ ~IsDict(media)
    \/ LET all_media == Get(media, "all", JList(<<>>))
           videos == Get(media, "videos", JList(<<>>)) IN
       \/ NonEmptyList(all_media) /\ ~AllDicts(all_media.items)
       \/ /\ NonEmptyList(videos)
          /\ \/ ~AllDicts(videos.items)
             \/ \E i \in 1..Len(videos.items) :
                   LET variants == Get1(videos.items[i], "variants") IN
                   NonEmptyList(variants) /\ ~AllDicts(variants.items)

\* extract_media: the media dict, or None (JNull) when it would be empty
extract_media(tweet_obj) ==
    LET media == Get(tweet_obj, "media", EmptyObj)
        all_media == Get(media, "all", JList(<<>>))
        videos == Get(media, "videos", JList(<<>>))
        photos == IF NonEmptyList(all_media) THEN SelectSeq(all_media.items, IsPhoto) ELSE <<>>
        media_data ==
            JObj((IF Len(photos) > 0
                  THEN "images" :> JList([i \in 1..Len(photos) |-> image_info(photos[i])])
                  ELSE NoKeys)
                 @@
                 (IF NonEmptyList(videos)
                  THEN "videos" :>
                           JList(SelectSeq([i \in 1..Len(videos.items) |->
                                               video_info(videos.items[i])],
                                           Truthy))
                  ELSE NoKeys))
    IN IF Truthy(media_data) THEN media_data ELSE JNull

(* ------------------------ extraction of the tweet ---------------------- *)
\* words in the block texts the model feeds in: len(s.split())
WordCount(s) ==
    CASE s = "" -> 0
      [] s = " " -> 0
      [] s = "one" -> 1
      [] s = "two words" -> 2
      [] OTHER -> 1

\* the blocks whose text is truthy, in order
TextBlocks(blocks) == SelectSeq(blocks, LAMBDA b : Truthy(Get(b, "text", JStr(""))))

\* "\n\n".join(...) over blocks already filtered
RECURSIVE JoinBlocks(_)
JoinBlocks(bs) ==
    IF bs = <<>> THEN ""
    ELSE IF Len(bs) = 1 THEN Head(bs).f["text"].s
         ELSE Head(bs).f["text"].s \o "\n\n" \o JoinBlocks(Tail(bs))

\* len(full_text.split()): the joined parts are separated by whitespace
RECURSIVE JoinedWordCount(_)
JoinedWordCount(bs) ==
    IF bs = <<>> THEN 0 ELSE WordCount(Head(bs).f["text"].s) + JoinedWordCount(Tail(bs))

\* iterating blocks and joining their texts fails
blocks_raise(blocks) ==
    \/ ~IsList(blocks)
    \/ ~AllDicts(blocks.items)
    \/ \E i \in 1..Len(blocks.items) :
          LET text == Get(blocks.items[i], "text", JStr("")) IN
          Truthy(text) /\ text.t # "str"

\* lines 150-164
article_data(article) ==
    LET blocks == Get(Get(article, "content", EmptyObj), "blocks", JList(<<>>)) IN
    JObj(("title" :> Get(article, "title", JStr("")))
         @@ ("preview_text" :> Get(article, "preview_text", JStr("")))
         @@ ("created_at" :> Get(article, "created_at", JStr("")))
         @@ (IF Truthy(blocks)
             THEN LET bs == TextBlocks(blocks.items) IN
                  ("full_text" :> JStr(JoinBlocks(bs)))
                  @@ ("word_count" :> JInt(JoinedWordCount(bs)))
                  @@ ("char_count" :> JInt(Len(JoinBlocks(bs))))
             ELSE NoKeys))

\* lines 133-145
quote_data(qt) ==
    JObj(("text" :> Get(qt, "text", JStr("")))
         @@ ("author" :> Get(Get(qt, "author", EmptyObj), "name", JStr("")))
         @@ ("screen_name" :> Get(Get(qt, "author", EmptyObj), "screen_name", JStr("")))
         @@ ("likes" :> Get(qt, "likes", JInt(0)))
         @@ ("retweets" :> Get(qt, "retweets", JInt(0)))
         @@ ("views" :> Get(qt, "views", JInt(0)))
         @@ (IF Truthy(extract_media(qt)) THEN "media" :> extract_media(qt) ELSE NoKeys))

\* lines 112-167 raise (a .get on a non-dict, or a join of non-strings)
extraction_raises(tweet) ==
    \/ ~IsDict(tweet)
    \/ ~IsDict(Get(tweet, "author", EmptyObj))
    \/ extract_media_raises(tweet)
    \/ LET qt == Get1(tweet, "quote") IN
       /\ Truthy(qt)
       /\ \/ ~IsDict(qt)
          \/ ~IsDict(Get(qt, "author", EmptyObj))
          \/ extract_media_raises(qt)
    \/ LET article == Get1(tweet, "article") IN
       /\ Truthy(article)
       /\ \/ ~IsDict(article)
          \/ ~IsDict(Get(article, "content", EmptyObj))
          \/ LET blocks == Get(Get(article, "content", EmptyObj), "blocks", JList(<<>>)) IN
             Truthy(blocks) /\ blocks_raise(blocks)

\* lines 112-167: tweet_data built from the tweet object
tweet_data(tweet) ==
    LET author == Get(tweet, "author", EmptyObj)
        qt == Get1(tweet, "quote")
        article == Get1(tweet, "article")
    IN JObj(("text" :> Get(tweet, "text", JStr("")))
            @@ ("author" :> Get(author, "name", JStr("")))
            @@ ("screen_name" :> Get(author, "screen_name", JStr("")))
            @@ ("likes" :> Get(tweet, "likes", JInt(0)))
            @@ ("retweets" :> Get(tweet, "retweets", JInt(0)))
            @@ ("bookmarks" :> Get(tweet, "bookmarks", JInt(0)))
            @@ ("views" :> Get(tweet, "views", JInt(0)))
            @@ ("replies_count" :> Get(tweet, "replies", JInt(0)))
            @@ ("created_at" :> Get(tweet, "created_at", JStr("")))
            @@ ("is_note_tweet" :> Get(tweet, "is_note_tweet", JBool(FALSE)))
            @@ ("lang" :> Get(tweet, "lang", JStr("")))
            @@ (IF Truthy(extract_media(tweet)) THEN "media" :> extract_media(tweet) ELSE NoKeys)
            @@ (IF Truthy(qt) THEN "quote" :> quote_data(qt) ELSE NoKeys)
            @@ (IF Truthy(article)
                THEN ("article" :> article_data(article)) @@ ("is_article" :> JBool(TRUE))
                ELSE "is_article" :> JBool(FALSE)))

(* ------------------------- exceptions and errors ----------------------- *)
\* the classes an exception of class cls is an instance of (urllib.error.HTTPError
\* derives from URLError, URLError and TimeoutError from OSError)
Bases(cls) ==
    CASE cls = "HTTPError" -> {"HTTPError", "URLError", "OSError", "Exception"}
      [] cls = "URLError" -> {"URLError", "OSError", "Exception"}
      [] cls = "TimeoutError" -> {"TimeoutError", "OSError", "Exception"}
      [] cls = "JSONDecodeError" -> {"JSONDecodeError", "ValueError", "Exception"}
      [] OTHER -> {cls, "Exception"}

\* variant: the clauses without the final "except Exception"
ExceptClauses_no_catch_all == <<"URLError", "HTTPError">>

\* the except clauses of the try statement, in the order they are written
ExceptClauses == <<"URLError", "HTTPError", "Exception">>

\* the clause that handles an exception of class cls: the first that matches,
\* "" when none does and the exception propagates
Handler(cls) ==
    IF \E i \in 1..Len(ExceptClauses) : ExceptClauses[i] \in Bases(cls)
    THEN LET k == CHOOSE i \in 1..Len(ExceptClauses) :
                     /\ ExceptClauses[i] \in Bases(cls)
                     /\ \A m \in 1..(i - 1) : ExceptClauses[m] \notin Bases(cls)
         IN ExceptClauses[k]
    ELSE ""

\* variant: one attempt more
max_attempts_plus_one == 2 + 1

max_attempts == 2

\* variant: the bound of the retry test is off by one
ShouldRetry_off_by_one(att) == att < max_attempts

\* "if attempt < max_attempts - 1" (line 174)
ShouldRetry(att) == att < max_attempts - 1

\* variant: any truthy code counts as success
code_ok_any_truthy(body) == Truthy(Get1(body, "code"))

\* "data.get('code') != 200" negated (line 107)
code_ok(body) == Get1(body, "code") = JInt(200)

\* the values stored under result["error"]
FxError(body) ==
    [msg |-> "FxTwitter returned code", code |-> Get1(body, "code"),
     detail |-> Get(body, "message", JStr("Unknown"))]
NetworkError ==
    [msg |-> "Network error: Failed to fetch tweet after retry", code |-> JNull, detail |-> JNull]
HttpError(e) ==
    [msg |-> "HTTP", code |-> JInt(e.code), detail |-> JStr(e.reason)]
GenericError ==
    [msg |-> "An unexpected error occurred while fetching the tweet",
     code |-> JNull, detail |-> JNull]

\* an exception raised inside the try statement
Exc(cls) == [cls |-> cls, code |-> 0, reason |-> ""]
HTTPErrors == {[cls |-> "HTTPError", code |-> 404, reason |-> "Not Found"],
               [cls |-> "HTTPError", code |-> 500, reason |-> "Internal Server Error"]}
\* what urlopen / resp.read() / json.loads can raise: no connection, a non-2xx
\* status, a read timeout, a body that is not JSON
RequestExceptions ==
    {Exc("URLError"), Exc("TimeoutError"), Exc("JSONDecodeError")} \cup HTTPErrors

(* --------------------------- response bodies --------------------------- *)
TextOpts == {{}, {<<"text", JStr("")>>}, {<<"text", JStr("hello")>>}}
AuthorOpts ==
    {{}, {<<"author", JNull>>},
     {<<"author", MkObj({<<"name", JStr("Bob")>>, <<"screen_name", JStr("bob")>>})>>}}

BlockVals == {MkObj({<<"text", JStr("")>>}), MkObj({<<"text", JStr("two words")>>}), JStr("raw")}
RECURSIVE SeqsUpTo(_, _)
SeqsUpTo(S, n) ==
    IF n = 0 THEN {<<>>}
    ELSE LET shorter == SeqsUpTo(S, n - 1) IN
         shorter \cup {Append(s, x) : s \in shorter, x \in S}
ArticleVals ==
    {JNull, JStr("article"), MkObj({<<"title", JStr("T")>>})}
    \cup {MkObj({<<"title", JStr("T")>>, <<"content", MkObj({<<"blocks", JList(bs)>>})>>}) :
             bs \in SeqsUpTo(BlockVals, MaxBlocks)}
MediaVals ==
    {JNull,
     MkObj({<<"all", JList(<<MkObj({<<"type", JStr("photo")>>, <<"url", JStr("p.jpg")>>,
                                    <<"width", JInt(640)>>}),
                            MkObj({<<"type", JStr("gif")>>})>>)>>}),
     MkObj({<<"videos", JList(<<MkObj({<<"url", JStr("v.mp4")>>,
                                       <<"variants", JList(<<MkObj({<<"bitrate", JInt(832)>>}),
                                                             EmptyObj>>)>>}),
                               EmptyObj>>)>>}),
     MkObj({<<"videos", JList(<<JStr("v.mp4")>>)>>})}
QuoteVals ==
    {JNull, JStr("quote"),
     MkObj({<<"text", JStr("quoted")>>, <<"likes", JInt(3)>>}),
     MkObj({<<"text", JStr("quoted")>>, <<"media", JNull>>})}
ExtraOpts ==
    {{}}
    \cup {{<<"article", a>>} : a \in ArticleVals}
    \cup {{<<"media", m>>} : m \in MediaVals}
    \cup {{<<"quote", q>>} : q \in QuoteVals}
    \cup {{<<"likes", JInt(5)>>, <<"views", JInt(9)>>, <<"quote", MkObj({<<"text", JStr("quoted")>>})>>,
           <<"article", MkObj({<<"title", JStr("T")>>,
                               <<"content", MkObj({<<"blocks",
                                   JList(<<MkObj({<<"text", JStr("one")>>})>>)>>})>>})>>}}

TweetObjs == {MkObj(tx \cup au \cup ex) : tx \in TextOpts, au \in AuthorOpts, ex \in ExtraOpts}

\* decoded bodies: not an object, an object without the success code, and objects
\* with the success code and a missing, malformed or well-formed tweet
Bodies ==
    {JNull, JList(<<>>), EmptyObj,
     MkObj({<<"code", JInt(404)>>, <<"message", JStr("NOT_FOUND")>>}),
     MkObj({<<"code", JInt(401)>>}),
     MkObj({<<"code", JStr("200")>>, <<"tweet", EmptyObj>>}),
     MkObj({<<"code", JInt(200)>>}),
     MkObj({<<"code", JInt(200)>>, <<"tweet", JNull>>}),
     MkObj({<<"code", JInt(200)>>, <<"tweet", JStr("tweet")>>})}
    \cup {MkObj({<<"code", JInt(200)>>, <<"message", JStr("OK")>>, <<"tweet", tw>>}) :
             tw \in TweetObjs}

(* ------------------------------- state --------------------------------- *)
VARIABLES
    pc,          \* position of the process: "main", "parse", "loop", "extract",
                 \* "sleep", "returned" (back in main, line 213), "exited"
    args,        \* the parsed command line
    result,      \* the dict built by fetch_tweet; its DOMAIN is the set of keys present
    api_url,     \* <<username, tweet_id>> of the templated endpoint
    attempt,     \* the loop variable of "for attempt in range(max_attempts)"
    data,        \* the decoded body of the response being processed
    trace,       \* calls made so far: fetch_tweet, parse_tweet_url, urlopen, sleep
    outcomes,    \* what each urlopen/read/json.loads so far produced
    stdout,      \* lines written to the output stream
    stderr,      \* lines written to the error stream
    exc,         \* class of the exception that left main uncaught, "" if none
    exit_status  \* <<>> while running, <<status>> once the process has exited

vars == <<pc, args, result, api_url, attempt, data, trace, outcomes, stdout, stderr, exc,
          exit_status>>

Event(op, url, secs) == [op |-> op, url |-> url, secs |-> secs]
Line(line, indent, vals) == [line |-> line, indent |-> indent, vals |-> vals]
Outcome(e, body) == [kind |-> e.cls, code |-> e.code, reason |-> e.reason, body |-> body]

\* indent=2 if args.pretty else None
Indent == IF args.pretty THEN 2 ELSE 0

Init ==
    /\ args \in [url : Urls, pretty : BOOLEAN, text_only : BOOLEAN,
                 timeout : 1..MaxTimeout, replies : BOOLEAN]
    /\ pc = "main"
    /\ result = NoKeys
    /\ api_url = <<>>
    /\ attempt = 0
    /\ data = JNull
    /\ trace = <<>>
    /\ outcomes = <<>>
    /\ stdout = <<>>
    /\ stderr = <<>>
    /\ exc = ""
    /\ exit_status = <<>>

(* -------------------------------- main --------------------------------- *)
\* lines 202-209: --replies prints the explanation to stderr and exits 1
Replies ==
    /\ pc = "main"
    /\ args.replies
    /\ stderr' = Append(stderr, Line("Reply fetching not currently supported", Indent, <<>>))
    /\ exit_status' = <<1>>
    /\ pc' = "exited"
    /\ UNCHANGED <<args, result, api_url, attempt, data, trace, outcomes, stdout, exc>>

\* variant: the call is made without testing args.replies first
CallFetch_before_replies_test ==
    /\ pc = "main"
    /\ trace' = Append(trace, Event("fetch_tweet", args.url, args.timeout))
    /\ pc' = "parse"
    /\ UNCHANGED <<args, result, api_url, attempt, data, outcomes, stdout, stderr, exc,
                   exit_status>>

\* line 211: main calls fetch_tweet(args.url, timeout=args.timeout)
CallFetch ==
    /\ pc = "main"
    /\ ~args.replies
    /\ trace' = Append(trace, Event("fetch_tweet", args.url, args.timeout))
    /\ pc' = "parse"
    /\ UNCHANGED <<args, result, api_url, attempt, data, outcomes, stdout, stderr, exc,
                   exit_status>>

(* ----------------------------- fetch_tweet ----------------------------- *)
\* line 94, parse_tweet_url raises: the ValueError leaves fetch_tweet and main
\* uncaught; the interpreter prints the traceback to stderr and exits 1
ParseFail ==
    /\ pc = "parse"
    /\ parse_tweet_url(args.url).raised
    /\ trace' = Append(trace, Event("parse_tweet_url", args.url, 0))
    /\ exc' = "ValueError"
    /\ stderr' = Append(stderr, Line("Traceback ValueError", 0, <<>>))
    /\ exit_status' = <<1>>
    /\ pc' = "exited"
    /\ UNCHANGED <<args, result, api_url, attempt, data, outcomes, stdout>>

\* lines 94-101: the result is created with its identification fields
ParseOk ==
    LET parsed == parse_tweet_url(args.url) IN
    /\ pc = "parse"
    /\ ~parsed.raised
    /\ trace' = Append(trace, Event("parse_tweet_url", args.url, 0))
    /\ result' = [url |-> args.url, username |-> parsed.username, tweet_id |-> parsed.tweet_id]
    /\ api_url' = <<parsed.username, parsed.tweet_id>>
    /\ attempt' = 0
    /\ pc' = "loop"
    /\ UNCHANGED <<args, data, outcomes, stdout, stderr, exc, exit_status>>

\* result["error"] = err; return result
ReturnError(err) ==
    /\ result' = ("error" :> err) @@ result
    /\ pc' = "returned"
    /\ UNCHANGED <<exc, stderr, exit_status>>

\* variant: the URLError clause records the error before it retries
OnException_records_before_retry(e) ==
    LET h == Handler(e.cls) IN
    CASE h = "URLError" ->
            IF ShouldRetry(attempt)
            THEN /\ pc' = "sleep"
                 /\ result' = ("error" :> NetworkError) @@ result
                 /\ UNCHANGED <<exc, stderr, exit_status>>
            ELSE ReturnError(NetworkError)
      [] h = "HTTPError" -> ReturnError(HttpError(e))
      [] h = "Exception" -> ReturnError(GenericError)
      [] OTHER -> /\ exc' = e.cls
                  /\ stderr' = Append(stderr, Line("Traceback " \o e.cls, 0, <<>>))
                  /\ exit_status' = <<1>>
                  /\ pc' = "exited"
                  /\ result' = result

\* lines 172-185: the except clause that matches e runs; an exception no clause
\* matches leaves fetch_tweet and main, and the interpreter exits 1
OnException(e) ==
    LET h == Handler(e.cls) IN
    CASE h = "URLError" ->
            IF ShouldRetry(attempt)
            THEN pc' = "sleep" /\ UNCHANGED <<result, exc, stderr, exit_status>>
            ELSE ReturnError(NetworkError)
      [] h = "HTTPError" -> ReturnError(HttpError(e))
      [] h = "Exception" -> ReturnError(GenericError)
      [] OTHER -> /\ exc' = e.cls
                  /\ stderr' = Append(stderr, Line("Traceback " \o e.cls, 0, <<>>))
                  /\ exit_status' = <<1>>
                  /\ pc' = "exited"
                  /\ result' = result

\* lines 103-105 raise: urlopen, resp.read() or json.loads fails
RequestRaises ==
    \E e \in RequestExceptions :
        /\ outcomes' = Append(outcomes, Outcome(e, JNull))
        /\ OnException(e)
        /\ data' = data

\* lines 103-109: a JSON body is decoded into data and its code is tested
RequestBody ==
    /\ data' \in Bodies
    /\ outcomes' = Append(outcomes, Outcome(Exc("body"), data'))
    /\ IF ~IsDict(data')
       THEN OnException(Exc("AttributeError"))
       ELSE IF ~code_ok(data')
            THEN ReturnError(FxError(data'))
            ELSE /\ pc' = "extract"
                 /\ UNCHANGED <<result, exc, stderr, exit_status>>

\* line 101, one iteration of the loop up to the code test, or line 187 when
\* range(max_attempts) is exhausted
Request ==
    /\ pc = "loop"
    /\ IF attempt < max_attempts
       THEN /\ trace' = Append(trace, Event("urlopen", api_url, args.timeout))
            /\ (RequestRaises \/ RequestBody)
       ELSE /\ pc' = "returned"
            /\ UNCHANGED <<result, data, trace, outcomes, exc, stderr, exit_status>>
    /\ UNCHANGED <<args, api_url, attempt, stdout>>

\* lines 111-170: the tweet object is extracted into result["tweet"]
Extract ==
    /\ pc = "extract"
    /\ IF "tweet" \notin DOMAIN data.f
       THEN OnException(Exc("KeyError"))
       ELSE IF extraction_raises(data.f["tweet"])
            THEN OnException(Exc("AttributeError"))
            ELSE /\ result' = ("tweet" :> tweet_data(data.f["tweet"])) @@ result
                 /\ pc' = "returned"
                 /\ UNCHANGED <<exc, stderr, exit_status>>
    /\ UNCHANGED <<args, api_url, attempt, data, trace, outcomes, stdout>>

\* lines 175-176: time.sleep(1); continue
Sleep ==
    /\ pc = "sleep"
    /\ trace' = Append(trace, Event("sleep", <<>>, 1))
    /\ attempt' = attempt + 1
    /\ pc' = "loop"
    /\ UNCHANGED <<args, result, api_url, data, outcomes, stdout, stderr, exc, exit_status>>

(* ------------------------------- output -------------------------------- *)
\* result.get("tweet", {})
ResultTweet == IF "tweet" \in DOMAIN result THEN result["tweet"] ELSE EmptyObj

\* line 215
HasArticleText ==
    /\ Truthy(Get1(ResultTweet, "is_article"))
    /\ Truthy(Get1(Get(ResultTweet, "article", EmptyObj), "full_text"))
\* line 222
HasText == Truthy(Get1(ResultTweet, "text"))
\* line 225: result.get("error")
HasError == "error" \in DOMAIN result /\ result["error"].msg # ""

\* lines 217-221
ArticleLines ==
    LET tweet == ResultTweet
        article == tweet.f["article"]
    IN << Line("title", 0, <<article.f["title"]>>),
          Line("byline", 0, <<tweet.f["screen_name"], Get(tweet, "created_at", JStr(""))>>),
          Line("stats", 0, <<tweet.f["likes"], tweet.f["retweets"], tweet.f["views"]>>),
          Line("words", 0, <<article.f["word_count"]>>),
          Line("full_text", 0, <<article.f["full_text"]>> ) >>

\* lines 223-224
TextLines ==
    LET tweet == ResultTweet IN
    << Line("text", 0, <<tweet.f["screen_name"], tweet.f["text"]>>),
       Line("stats", 0, <<tweet.f["likes"], tweet.f["retweets"], tweet.f["views"]>>) >>

\* lines 213-230: the result is printed and the process ends
Output ==
    /\ pc = "returned"
    /\ IF args.text_only
       THEN IF HasArticleText
            THEN stdout' = stdout \o ArticleLines /\ stderr' = stderr /\ exit_status' = <<0>>
            ELSE IF HasText
                 THEN stdout' = stdout \o TextLines /\ stderr' = stderr
                      /\ exit_status' = <<0>>
                 ELSE IF HasError
                      THEN /\ stderr' = Append(stderr, Line("Error", 0, <<result["error"]>>))
                           /\ stdout' = stdout
                           /\ exit_status' = <<1>>
                      ELSE UNCHANGED <<stdout, stderr>> /\ exit_status' = <<0>>
       ELSE /\ stdout' = Append(stdout, Line("json", Indent, <<result>>))
            /\ stderr' = stderr
            /\ exit_status' = <<0>>
    /\ pc' = "exited"
    /\ UNCHANGED <<args, result, api_url, attempt, data, trace, outcomes, exc>>

Next ==
    \/ Replies
    \/ CallFetch
    \/ ParseFail
    \/ ParseOk
    \/ Request
    \/ Extract
    \/ Sleep
    \/ Output

Spec == Init /\ [][Next]_vars

\* every call returns or fails within its timeout and the process is scheduled
FairSpec == Spec /\ WF_vars(Next)

TypeOK ==
    /\ pc \in {"main", "parse", "loop", "extract", "sleep", "returned", "exited"}
    /\ attempt \in 0..max_attempts
    /\ Len(exit_status) <= 1

(* ------------------------------ properties ----------------------------- *)
Count(op) == Cardinality({i \in 1..Len(trace) : trace[i].op = op})
Requests == Count("urlopen")
Sleeps == Count("sleep")
\* the network calls and sleeps made so far, in order
NetOps == LET net == SelectSeq(trace, LAMBDA ev : ev.op \in {"urlopen", "sleep"})
          IN [i \in 1..Len(net) |-> net[i].op]

\* fetch_tweet has returned a record to main
FetchReturned == pc \in {"returned", "exited"} /\ exc = "" /\ Count("fetch_tweet") = 1
HasKey(k) == k \in DOMAIN result
NthOutcome(i, kind) == Len(outcomes) >= i /\ outcomes[i].kind = kind

\* C1: an HTTP error on the first attempt makes fetch_tweet return at once with
\* the error "HTTP <code>: <reason>": one request, no sleep, no second attempt,
\* and not the network-error message.
C1_HttpErrorReturnsAtOnce ==
    NthOutcome(1, "HTTPError") =>
        /\ FetchReturned
        /\ NetOps = <<"urlopen">>
        /\ HasKey("error")
        /\ result["error"] = HttpError(outcomes[1])
        /\ result["error"] # NetworkError

\* C2: two consecutive transport failures end the fetch after exactly two
\* requests with one sleep of one second between them, with the network-error
\* message and no tweet; no third request and no later sleep.
C2_TwoTransportFailures ==
    (NthOutcome(1, "URLError") /\ NthOutcome(2, "URLError")) =>
        /\ FetchReturned
        /\ NetOps = <<"urlopen", "sleep", "urlopen">>
        /\ \A i \in 1..Len(trace) : trace[i].op = "sleep" => trace[i].secs = 1
        /\ Len(outcomes) = 2
        /\ HasKey("error")
        /\ result["error"] = NetworkError
        /\ ~HasKey("tweet")
C2_Witness ==
    /\ NthOutcome(1, "URLError")
    /\ NthOutcome(2, "URLError")
    /\ pc = "exited"

\* a tweet object of the expected shape: an object whose nested values, when
\* present, are objects and lists of objects with string texts
ShapedMedia(obj) ==
    "media" \in DOMAIN obj.f =>
        /\ IsDict(obj.f["media"])
        /\ \A k \in DOMAIN obj.f["media"].f :
              /\ IsList(obj.f["media"].f[k])
              /\ \A i \in 1..Len(obj.f["media"].f[k].items) :
                    LET item == obj.f["media"].f[k].items[i] IN
                    /\ IsDict(item)
                    /\ "variants" \in DOMAIN item.f =>
                          /\ IsList(item.f["variants"])
                          /\ \A n \in 1..Len(item.f["variants"].items) :
                                IsDict(item.f["variants"].items[n])
ShapedPost(obj) ==
    /\ IsDict(obj)
    /\ "author" \in DOMAIN obj.f => IsDict(obj.f["author"])
    /\ ShapedMedia(obj)
WellFormedTweet(tw) ==
    /\ ShapedPost(tw)
    /\ "quote" \in DOMAIN tw.f => ShapedPost(tw.f["quote"])
    /\ "article" \in DOMAIN tw.f =>
          /\ IsDict(tw.f["article"])
          /\ "content" \in DOMAIN tw.f["article"].f =>
                /\ IsDict(tw.f["article"].f["content"])
                /\ "blocks" \in DOMAIN tw.f["article"].f["content"].f =>
                      LET blocks == tw.f["article"].f["content"].f["blocks"] IN
                      /\ IsList(blocks)
                      /\ \A i \in 1..Len(blocks.items) :
                            /\ IsDict(blocks.items[i])
                            /\ "text" \in DOMAIN blocks.items[i].f =>
                                  blocks.items[i].f["text"].t = "str"
\* a body with code 200 and a well-formed tweet object
SuccessPayload(body) ==
    /\ IsDict(body)
    /\ "code" \in DOMAIN body.f
    /\ body.f["code"] = JInt(200)
    /\ "tweet" \in DOMAIN body.f
    /\ WellFormedTweet(body.f["tweet"])

\* C3: a transport failure followed by a well-formed success payload yields a
\* record with a populated tweet and no error.
C3_RetryRecovers ==
    (/\ NthOutcome(1, "URLError")
     /\ NthOutcome(2, "body")
     /\ SuccessPayload(outcomes[2].body)
     /\ pc \in {"returned", "exited"}) =>
        /\ FetchReturned
        /\ HasKey("tweet")
        /\ Truthy(result["tweet"])
        /\ ~HasKey("error")
C3_Witness ==
    /\ NthOutcome(1, "URLError")
    /\ NthOutcome(2, "body")
    /\ SuccessPayload(outcomes[2].body)
    /\ pc = "exited"
    /\ HasKey("tweet")

\* a JSON object whose code field is not the number 200
NonSuccessBody(o) ==
    /\ o.kind = "body"
    /\ IsDict(o.body)
    /\ ("code" \notin DOMAIN o.body.f \/ o.body.f["code"] # JInt(200))

\* C4: a JSON object whose code is not 200, on either attempt, makes
\* fetch_tweet return at once with an error carrying the remote code and
\* message and without a tweet; no request follows and nothing is raised.
C4_NonSuccessCode ==
    \A i \in 1..Len(outcomes) :
        NonSuccessBody(outcomes[i]) =>
            /\ FetchReturned
            /\ i = Len(outcomes)
            /\ Requests = i
            /\ trace[Len(trace)].op = "urlopen"
            /\ HasKey("error")
            /\ result["error"].msg = "FxTwitter returned code"
            /\ result["error"].code =
                  (IF "code" \in DOMAIN outcomes[i].body.f
                   THEN outcomes[i].body.f["code"] ELSE JNull)
            /\ result["error"].detail =
                  (IF "message" \in DOMAIN outcomes[i].body.f
                   THEN outcomes[i].body.f["message"] ELSE JStr("Unknown"))
            /\ ~HasKey("tweet")
C4_Witness ==
    /\ Len(outcomes) = 2
    /\ NonSuccessBody(outcomes[2])
    /\ "code" \in DOMAIN outcomes[2].body.f
    /\ pc = "exited"

\* the URLs of the model that the pattern matches somewhere, written out
MatchingUrls ==
    { <<"https://", "x.com", "/", "a", "/", "status", "/", "7">>,
      <<"twitter.com", "/", "abcdefghijklmno", "/", "status", "/", "7", "4">>,
      <<"https://", "x.com", "/", "status", "/", "status", "/", "4", "?", "a">>,
      <<"x.com", "/", "_", "7", "/", "status", "/", "7", "a">>,
      <<"x.com", "/", "-", "/", "twitter.com", "/", "a", "/", "status", "/", "4">> }

\* C5: with --replies, whatever the URL and the other flags, the process writes
\* the "not supported" JSON to stderr and exits 1; fetch_tweet is never called,
\* the URL is never parsed and no request is made.
C5_RepliesNeverFetches ==
    args.replies =>
        /\ trace = <<>>
        /\ stdout = <<>>
        /\ result = NoKeys
        /\ pc \in {"main", "exited"}
        /\ pc = "exited" =>
              /\ exit_status = <<1>>
              /\ Len(stderr) = 1
              /\ stderr[1].line = "Reply fetching not currently supported"
              /\ exc = ""
C5_Witness ==
    /\ args.replies
    /\ args.text_only
    /\ args.url \notin MatchingUrls
    /\ pc = "exited"

\* C6: with --text-only and without --replies, a result that has neither an
\* article full text nor a non-empty text makes the process print an error to
\* stderr and exit 1, whether the result carries an error or a tweet.
C6_TextOnlyNoDataExits1 ==
    (/\ pc = "exited"
     /\ FetchReturned
     /\ args.text_only
     /\ ~args.replies
     /\ ~HasArticleText
     /\ ~HasText) =>
        /\ exit_status = <<1>>
        /\ Len(stderr) > 0

\* C7: a URL the pattern does not match makes fetch_tweet fail with the
\* ValueError before any request or sleep; no record is returned, nothing is
\* written to stdout and the exit status is not 0.
C7_MalformedUrlIsFatal ==
    (args.url \notin MatchingUrls /\ Count("fetch_tweet") = 1) =>
        /\ Requests = 0
        /\ Sleeps = 0
        /\ result = NoKeys
        /\ stdout = <<>>
        /\ pc \in {"parse", "exited"}
        /\ pc = "exited" =>
              /\ exc = "ValueError"
              /\ exit_status # <<0>>
              /\ Len(exit_status) = 1
C7_Witness ==
    /\ args.url = <<"x.com", "/", "abcdefghijklmno", "a", "/", "status", "/", "7">>
    /\ ~args.replies
    /\ pc = "exited"
    /\ exc = "ValueError"

\* outcomes of an attempt that are neither a transport nor an HTTP error and
\* cannot be extracted: a read timeout, a body that is not JSON, JSON that is
\* not an object, code 200 with a missing tweet, a tweet that is not an object
\* or a tweet whose author is not an object
Unextractable(o) ==
    \/ o.kind \in {"TimeoutError", "JSONDecodeError"}
    \/ /\ o.kind = "body"
       /\ \/ ~IsDict(o.body)
          \/ /\ "code" \in DOMAIN o.body.f
             /\ o.body.f["code"] = JInt(200)
             /\ \/ "tweet" \notin DOMAIN o.body.f
                \/ ~IsDict(o.body.f["tweet"])
                \/ /\ "author" \in DOMAIN o.body.f["tweet"].f
                   /\ ~IsDict(o.body.f["tweet"].f["author"])

\* C8: once the URL has parsed, nothing the remote side does makes fetch_tweet
\* raise: no exception leaves it, a returned record always exists, and an
\* attempt that cannot be extracted ends the fetch with the generic error and
\* no retry.
C8_RemoteFailuresNeverRaise ==
    Count("urlopen") > 0 =>
        /\ exc = ""
        /\ pc = "exited" => exit_status # <<>> /\ result # NoKeys
        /\ \A i \in 1..Len(outcomes) :
              (Unextractable(outcomes[i]) /\ pc # "extract") =>
                  /\ FetchReturned
                  /\ i = Len(outcomes)
                  /\ Requests = i
                  /\ HasKey("error")
                  /\ result["error"] = GenericError
                  /\ ~HasKey("tweet")
C8_Witness ==
    /\ Len(outcomes) = 2
    /\ outcomes[2].kind = "body"
    /\ IsDict(outcomes[2].body)
    /\ Unextractable(outcomes[2])
    /\ pc = "exited"

\* C9: every record fetch_tweet returns has exactly one of tweet and error, and
\* the url, username and tweet_id it was given at parse time.
C9_ExactlyOneOfTweetAndError ==
    /\ FetchReturned =>
          /\ HasKey("tweet") # HasKey("error")
          /\ DOMAIN result = {"url", "username", "tweet_id"}
                                \cup (IF HasKey("tweet") THEN {"tweet"} ELSE {"error"})
    /\ result # NoKeys =>
          /\ {"url", "username", "tweet_id"} \subseteq DOMAIN result
          /\ result["url"] = args.url
          /\ <<result["username"], result["tweet_id"]>> = api_url
          /\ args.url \in MatchingUrls
C9_Witness ==
    /\ pc = "exited"
    /\ Len(outcomes) = 2
    /\ outcomes[2].kind = "HTTPError"
    /\ HasKey("error")

\* the state of the resolver's state machine
ResolverState ==
    CASE pc = "main" -> "Idle"
      [] pc = "parse" -> "Parsing"
      [] pc = "loop" -> "Fetching"
      [] pc = "sleep" -> "RetryOnce"
      [] pc = "extract" -> "Extracting"
      [] OTHER -> IF Count("fetch_tweet") = 0 THEN "Idle"
                  ELSE IF exc # "" \/ HasKey("error") THEN "Failed" ELSE "Done"
Terminal == ResolverState \in {"Done", "Failed"}
Transitions ==
    { <<"Idle", "Parsing">>, <<"Parsing", "Failed">>, <<"Parsing", "Fetching">>,
      <<"Fetching", "RetryOnce">>, <<"RetryOnce", "Fetching">>, <<"Fetching", "Failed">>,
      <<"Fetching", "Extracting">>, <<"Extracting", "Done">>, <<"Extracting", "Failed">> }

====
